---- MODULE Spec2Model ----
(***************************************************************************)
(* Risk-validation engine of volatility-risk-analytics:                    *)
(*   src/src/backtests.py     kupiec_pof_test, christoffersen_test,        *)
(*                            rolling_basel_traffic_light                  *)
(*   src/src/risk_metrics.py  parametric_var_cvar, var_breaches,           *)
(*                            calibrate_volatility                         *)
(*   src/src/stress_tests.py  stress_test_period                           *)
(*                                                                         *)
(* A pandas Series is a sequence of records [t |-> label, v |-> value],    *)
(* in index order.  Positions are 0-based in the code (iloc) and 1-based   *)
(* in TLA+ sequences; Iloc and IlocSlice do the shift.                     *)
(*                                                                         *)
(* Floating-point results whose finiteness matters are carried by their    *)
(* IEEE kind: "fin" (a finite number), "pinf", "ninf", "nan".              *)
(***************************************************************************)
EXTENDS Integers, Sequences, FiniteSets, TLC

VARIABLES
    returns,    \* the Return Series (input, read-only)
    sigma,      \* the Volatility Series (input, read-only)
    var,        \* a VaR Series handed to var_breaches (input, read-only)
    breaches,   \* the Breach Indicator Series (input, read-only)
    pc,         \* position of the running christoffersen_test call
    i,          \* christoffersen_test: loop variable of the scan
    n00, n01, n10, n11,   \* christoffersen_test: transition counts
    call,       \* the last call made: operation name and scalar arguments
    out,        \* what that call returned or raised
    thr,        \* concurrent callers: each one's position, call and result
    locals      \* concurrent callers: the local variables of each running call

vars == <<returns, sigma, var, breaches, pc, i, n00, n01, n10, n11, call, out, thr, locals>>

----------------------------------------------------------------------------
(* Bounds of the model *)

MaxT == 6            \* longest breach series given to Kupiec / Christoffersen
MaxBaselLen == 12    \* longest breach series given to the Basel classifier
MaxRunLen == 17      \* longest breach series of the Basel status-run check
MaxConcLen == 3      \* longest breach series shared by concurrent callers
MaxConcStamp == 1    \* timestamps of the returns, sigma and VaR shared by concurrent callers

----------------------------------------------------------------------------
(* pandas Series helpers *)

Index(s) == [k \in 1..Len(s) |-> s[k].t]
Values(s) == [k \in 1..Len(s) |-> s[k].v]
Labels(s) == {s[k].t : k \in 1..Len(s)}

Iloc(s, p) == s[p + 1]
\* s.iloc[a:b] for 0 <= a
IlocSlice(s, a, b) == SubSeq(s, a + 1, IF b > Len(s) THEN Len(s) ELSE b)

\* the timestamp carried by position p of a breach series
Stamp(p) == 100 + p

BreachSeries(maxLen) ==
    UNION {{[k \in 1..n |-> [t |-> Stamp(k - 1), v |-> b[k]]] : b \in [1..n -> BOOLEAN]}
           : n \in 0..maxLen}

AsInt(b) == IF b THEN 1 ELSE 0

RECURSIVE SumBool(_)
SumBool(s) == IF s = <<>> THEN 0 ELSE AsInt(Head(s).v) + SumBool(Tail(s))

NoCall == [op |-> "none"]
NoOut == [status |-> "none"]

\* the callers that may run core operations at the same time
Callers == {"a", "b"}

\* the local variables of a christoffersen_test or rolling_basel_traffic_light
\* call: the loop variable, the four counts, the list of statuses
EmptyFrame == [i |-> 0, n00 |-> 0, n01 |-> 0, n10 |-> 0, n11 |-> 0, results |-> <<>>]

NoThreads == [c \in Callers |-> [pc |-> "idle", op |-> "none", arg |-> 0, out |-> NoOut]]
NoLocals == [c \in Callers |-> EmptyFrame]

----------------------------------------------------------------------------
(* IEEE kinds *)

Kinds == {"fin", "pinf", "ninf", "nan"}

\* np.log(num/den), den > 0
Log(num, den) == IF num > 0 THEN "fin" ELSE IF num = 0 THEN "ninf" ELSE "nan"

KNeg(a) == CASE a = "pinf" -> "ninf" [] a = "ninf" -> "pinf" [] OTHER -> a

\* n * a for an integer n
KMulInt(n, a) ==
    CASE a = "nan" -> "nan"
      [] a = "fin" -> "fin"
      [] OTHER -> IF n = 0 THEN "nan" ELSE IF n > 0 THEN a ELSE KNeg(a)

KAdd(a, b) ==
    CASE a = "nan" \/ b = "nan" -> "nan"
      [] a = "fin" -> b
      [] b = "fin" -> a
      [] OTHER -> IF a = b THEN a ELSE "nan"

KSub(a, b) == KAdd(a, KNeg(b))

\* 1 - chi2.cdf(LR, df=1)
Chi2Sf(lr) == IF lr = "nan" THEN "nan" ELSE "fin"

----------------------------------------------------------------------------
(* kupiec_pof_test; alpha is given in hundredths, so p = (100 - alpha)/100  *)
(* and "expected" is kept in hundredths as T * (100 - alpha).               *)

KupiecAlphas == {0, 50, 95, 99, 100}

KupiecDegenerateZeroOnly(x, T) == x = 0

KupiecDegenerate(x, T) == x = 0 \/ x = T

KupiecLR(x, T, alpha) ==
    KMulInt(-2,
        KSub(KAdd(KMulInt(T - x, Log(alpha, 100)),
                  KMulInt(x, Log(100 - alpha, 100))),
             KAdd(KMulInt(T - x, Log(T - x, T)),
                  KMulInt(x, Log(x, T)))))

kupiec_pof_test(br, alpha) ==
    LET T == Len(br)
        x == SumBool(br)
    IN  IF KupiecDegenerate(x, T)
        THEN [status |-> "ok", LR_stat |-> "nan", p_value |-> "nan",
              breaches |-> x, expected |-> T * (100 - alpha), logs |-> 0]
        ELSE [status |-> "ok", LR_stat |-> KupiecLR(x, T, alpha),
              p_value |-> Chi2Sf(KupiecLR(x, T, alpha)),
              breaches |-> x, expected |-> T * (100 - alpha), logs |-> 4]

----------------------------------------------------------------------------
(* christoffersen_test: the scan is one step per loop iteration *)

ChrBucketSwapped(prev, curr) ==
    CASE prev = 0 /\ curr = 0 -> "n00"
      [] prev = 0 /\ curr = 1 -> "n10"
      [] prev = 1 /\ curr = 0 -> "n01"
      [] prev = 1 /\ curr = 1 -> "n11"

ChrBucket(prev, curr) ==
    CASE prev = 0 /\ curr = 0 -> "n00"
      [] prev = 0 /\ curr = 1 -> "n01"
      [] prev = 1 /\ curr = 0 -> "n10"
      [] prev = 1 /\ curr = 1 -> "n11"

\* np.log(x) if x > 0 else 0, for x = num/den
SafeLog(num, den) == IF num > 0 THEN Log(num, den) ELSE "fin"

\* the code after the scan: pi0 and pi1 are guarded, pi is not
ChrResult(c00, c01, c10, c11) ==
    LET pi0 == IF c00 + c01 > 0 THEN <<c01, c00 + c01>> ELSE <<0, 1>>
        pi1 == IF c10 + c11 > 0 THEN <<c11, c10 + c11>> ELSE <<0, 1>>
        tot == c00 + c01 + c10 + c11
    IN  IF tot = 0
        THEN [status |-> "raise", exc |-> "ZeroDivisionError"]
        ELSE LET pi == <<c01 + c11, tot>>
                 L0 == KAdd(KMulInt(c00 + c10, SafeLog(pi[2] - pi[1], pi[2])),
                            KMulInt(c01 + c11, SafeLog(pi[1], pi[2])))
                 L1 == KAdd(KAdd(KMulInt(c00, SafeLog(pi0[2] - pi0[1], pi0[2])),
                                 KMulInt(c01, SafeLog(pi0[1], pi0[2]))),
                            KAdd(KMulInt(c10, SafeLog(pi1[2] - pi1[1], pi1[2])),
                                 KMulInt(c11, SafeLog(pi1[1], pi1[2]))))
                 LR == KMulInt(-2, KSub(L0, L1))
             IN  [status |-> "ok", LR_stat |-> LR, p_value |-> Chi2Sf(LR)]

----------------------------------------------------------------------------
(* Actions of the backtest suite *)

Idle == pc \in {"idle", "done"}

Kupiec(alpha) ==
    /\ Idle
    /\ call' = [op |-> "kupiec_pof_test", alpha |-> alpha]
    /\ out' = kupiec_pof_test(breaches, alpha)
    /\ pc' = "idle"
    /\ UNCHANGED <<thr, locals, returns, sigma, var, breaches, i, n00, n01, n10, n11>>

ChrStart ==
    /\ Idle
    /\ call' = [op |-> "christoffersen_test"]
    /\ out' = NoOut
    /\ n00' = 0 /\ n01' = 0 /\ n10' = 0 /\ n11' = 0
    /\ i' = 1
    /\ pc' = "scan"
    /\ UNCHANGED <<thr, locals, returns, sigma, var, breaches>>

ChrScanStep ==
    /\ pc = "scan"
    /\ i < Len(breaches)
    /\ LET prev == AsInt(Iloc(breaches, i - 1).v)
           curr == AsInt(Iloc(breaches, i).v)
           b == ChrBucket(prev, curr)
       IN  /\ n00' = IF b = "n00" THEN n00 + 1 ELSE n00
           /\ n01' = IF b = "n01" THEN n01 + 1 ELSE n01
           /\ n10' = IF b = "n10" THEN n10 + 1 ELSE n10
           /\ n11' = IF b = "n11" THEN n11 + 1 ELSE n11
    /\ i' = i + 1
    /\ UNCHANGED <<thr, locals, returns, sigma, var, breaches, pc, call, out>>

ChrFinish ==
    /\ pc = "scan"
    /\ i >= Len(breaches)
    /\ out' = ChrResult(n00, n01, n10, n11)
    /\ pc' = "done"
    /\ UNCHANGED <<thr, locals, returns, sigma, var, breaches, i, n00, n01, n10, n11, call>>

InitBacktest ==
    /\ breaches \in BreachSeries(MaxT)
    /\ returns = <<>> /\ sigma = <<>> /\ var = <<>>
    /\ pc = "idle" /\ i = 0
    /\ n00 = 0 /\ n01 = 0 /\ n10 = 0 /\ n11 = 0
    /\ call = NoCall /\ out = NoOut
    /\ thr = NoThreads /\ locals = NoLocals

NextBacktest ==
    \/ \E alpha \in KupiecAlphas : Kupiec(alpha)
    \/ ChrStart
    \/ ChrScanStep
    \/ ChrFinish

SpecBacktest == InitBacktest /\ [][NextBacktest]_vars

----------------------------------------------------------------------------
(* rolling_basel_traffic_light *)

BaselStatusStrict(c) ==
    IF c < 4 THEN "GREEN" ELSE IF c < 9 THEN "YELLOW" ELSE "RED"

BaselStatusNarrowYellow(c) ==
    IF c <= 4 THEN "GREEN" ELSE IF c <= 8 THEN "YELLOW" ELSE "RED"

BaselStatus(c) ==
    IF c <= 4 THEN "GREEN" ELSE IF c <= 9 THEN "YELLOW" ELSE "RED"

\* breaches.iloc[i - window:i].sum()
WindowBreaches(br, p, window) == SumBool(IlocSlice(br, p - window, p))

\* one status per loop index window .. len-1, indexed by breaches.index[window:]
rolling_basel_traffic_light(br, window) ==
    LET n == IF Len(br) > window THEN Len(br) - window ELSE 0
    IN  [k \in 1..n |->
            [t |-> Iloc(br, window + k - 1).t,
             v |-> BaselStatus(WindowBreaches(br, window + k - 1, window))]]

BaselWindows == 0..(MaxBaselLen + 1)

Basel(window) ==
    /\ Idle
    /\ call' = [op |-> "rolling_basel_traffic_light", window |-> window]
    /\ out' = [status |-> "ok", series |-> rolling_basel_traffic_light(breaches, window)]
    /\ pc' = "idle"
    /\ UNCHANGED <<thr, locals, returns, sigma, var, breaches, i, n00, n01, n10, n11>>

InitBasel ==
    /\ breaches \in BreachSeries(MaxBaselLen)
    /\ returns = <<>> /\ sigma = <<>> /\ var = <<>>
    /\ pc = "idle" /\ i = 0
    /\ n00 = 0 /\ n01 = 0 /\ n10 = 0 /\ n11 = 0
    /\ call = NoCall /\ out = NoOut
    /\ thr = NoThreads /\ locals = NoLocals

NextBasel == \E window \in BaselWindows : Basel(window)

SpecBasel == InitBasel /\ [][NextBasel]_vars

\* longer series under the windows that let a status run from GREEN to RED
InitBaselRun ==
    /\ \E n \in 0..MaxRunLen : \E b \in [1..n -> BOOLEAN] :
           breaches = [k \in 1..n |-> [t |-> Stamp(k - 1), v |-> b[k]]]
    /\ returns = <<>> /\ sigma = <<>> /\ var = <<>>
    /\ pc = "idle" /\ i = 0
    /\ n00 = 0 /\ n01 = 0 /\ n10 = 0 /\ n11 = 0
    /\ call = NoCall /\ out = NoOut
    /\ thr = NoThreads /\ locals = NoLocals

RunWindows == {1, 10}

NextBaselRun == \E window \in RunWindows : Basel(window)

SpecBaselRun == InitBaselRun /\ [][NextBaselRun]_vars

----------------------------------------------------------------------------
(* Claims about the backtest suite and the Basel classifier *)

TrueCount(br, lo, hi) == Cardinality({p \in lo..hi : Iloc(br, p).v})

\* C1: rolling_basel_traffic_light returns exactly one status for each index
\* p with W <= p < T and none below W (nothing when T <= W), labelled with the
\* timestamp at index p; the status is GREEN when the number c of true values
\* at indices p-W .. p-1 is at most 4, YELLOW when 5 <= c <= 9, RED when c >= 10.
C1_BaselOnePerEligibleIndex ==
    call.op = "rolling_basel_traffic_light" =>
        LET T == Len(breaches)
            W == call.window
            res == out.series
        IN  /\ out.status = "ok"
            /\ Len(res) = (IF T > W THEN T - W ELSE 0)
            /\ \A k \in 1..Len(res) :
                   LET p == W + k - 1
                       c == TrueCount(breaches, p - W, p - 1)
                   IN  /\ res[k].t = Stamp(p)
                       /\ (c <= 4 => res[k].v = "GREEN")
                       /\ (c >= 5 /\ c <= 9 => res[k].v = "YELLOW")
                       /\ (c >= 10 => res[k].v = "RED")

\* window 10 over 12 observations: a YELLOW at count 9 followed by a RED at count 10
C1_Witness ==
    /\ call.op = "rolling_basel_traffic_light"
    /\ call.window = 10
    /\ Len(breaches) = 12
    /\ TrueCount(breaches, 0, 9) = 9
    /\ TrueCount(breaches, 1, 10) = 10
    /\ out.series[1].v = "YELLOW"
    /\ out.series[2].v = "RED"

\* C3: kupiec_pof_test returns a NaN statistic and p-value exactly when x = 0
\* or x = T, evaluating no logarithm then, and a non-NaN statistic otherwise;
\* always observed_count = x and expected_count = T * (1 - alpha).
C3_KupiecNaNExactlyWhenDegenerate ==
    call.op = "kupiec_pof_test" =>
        LET T == Len(breaches)
            x == TrueCount(breaches, 0, T - 1)
        IN  /\ out.status = "ok"
            /\ (x = 0 \/ x = T) =>
                   (out.LR_stat = "nan" /\ out.p_value = "nan" /\ out.logs = 0)
            /\ ~(x = 0 \/ x = T) => out.LR_stat # "nan"
            /\ out.breaches = x
            /\ out.expected = T * (100 - call.alpha)

\* every observation is a breach, in a series of at least two
C3_Witness ==
    /\ call.op = "kupiec_pof_test"
    /\ Len(breaches) >= 2
    /\ TrueCount(breaches, 0, Len(breaches) - 1) = Len(breaches)
    /\ out.LR_stat = "nan"
    /\ out.breaches = Len(breaches)

PairCount(br, prev, curr) ==
    Cardinality({p \in 1..(Len(br) - 1) :
                     Iloc(br, p - 1).v = prev /\ Iloc(br, p).v = curr})

ScanOver == pc = "done" \/ (pc = "scan" /\ i >= Len(breaches))

\* C4: for T >= 1, after the scan every adjacent pair (indicator[p-1],
\* indicator[p]), p = 1..T-1, sits in the one bucket its (previous, current)
\* names: n00+n01+n10+n11 = T-1, n01+n11 = breaches at indices 1..T-1,
\* n10+n11 = breaches at indices 0..T-2.
C4_ChristoffersenScanCounts ==
    (ScanOver /\ Len(breaches) >= 1) =>
        LET T == Len(breaches)
        IN  /\ n00 = PairCount(breaches, FALSE, FALSE)
            /\ n01 = PairCount(breaches, FALSE, TRUE)
            /\ n10 = PairCount(breaches, TRUE, FALSE)
            /\ n11 = PairCount(breaches, TRUE, TRUE)
            /\ n00 + n01 + n10 + n11 = T - 1
            /\ n01 + n11 = TrueCount(breaches, 1, T - 1)
            /\ n10 + n11 = TrueCount(breaches, 0, T - 2)

\* a finished scan that met all four kinds of pair
C4_Witness ==
    /\ pc = "done"
    /\ n00 >= 1 /\ n01 >= 1 /\ n10 >= 1 /\ n11 >= 1

\* C5: christoffersen_test returns a result record for every breach series,
\* lengths 0 and 1 included, and never raises.
C5_ChristoffersenNeverRaises ==
    (call.op = "christoffersen_test" /\ pc = "done") => out.status = "ok"

----------------------------------------------------------------------------
(* Numbers of the risk metrics: a float is its IEEE kind and, when finite,  *)
(* an integer count of a fixed unit.                                        *)

Fin(n) == [k |-> "fin", v |-> n]
NaN == [k |-> "nan", v |-> 0]
PInf == [k |-> "pinf", v |-> 0]
NInf == [k |-> "ninf", v |-> 0]

\* e * n for a float e and a finite value n
XMulInt(e, n) ==
    CASE e.k = "nan" -> NaN
      [] e.k = "fin" -> Fin(e.v * n)
      [] OTHER -> IF n = 0 THEN NaN
                  ELSE IF n > 0 THEN e
                  ELSE IF e.k = "pinf" THEN NInf ELSE PInf

\* a rational num/den, or NaN (the mean of nothing)
Ratio(num, den) == [k |-> "fin", num |-> num, den |-> den]
RatioNaN == [k |-> "nan", num |-> 0, den |-> 0]

RECURSIVE SortedSeq(_)
SortedSeq(S) ==
    IF S = {} THEN <<>>
    ELSE LET m == CHOOSE x \in S : \A y \in S : x <= y
         IN  <<m>> \o SortedSeq(S \ {m})

\* every series with strictly increasing labels drawn from stamps
AllSeries(stamps, vals) ==
    UNION {{[k \in 1..Cardinality(S) |->
                [t |-> SortedSeq(S)[k], v |-> f[SortedSeq(S)[k]]]] : f \in [S -> vals]}
           : S \in SUBSET stamps}

RECURSIVE SumV(_)
SumV(s) == IF s = <<>> THEN 0 ELSE Head(s).v + SumV(Tail(s))

RECURSIVE SumSq(_)
SumSq(s) == IF s = <<>> THEN 0 ELSE Head(s).v * Head(s).v + SumSq(Tail(s))

ValueAt(s, label) == (CHOOSE k \in 1..Len(s) : s[k].t = label)

\* s.loc[labels]: KeyError when a label is not in the index
Loc(s, labels) ==
    IF \E k \in 1..Len(labels) : labels[k] \notin Labels(s)
    THEN [status |-> "raise", exc |-> "KeyError"]
    ELSE [status |-> "ok",
          series |-> [k \in 1..Len(labels) |-> s[ValueAt(s, labels[k])]]]

----------------------------------------------------------------------------
(* parametric_var_cvar.  alpha in hundredths; quantiles and CVaR factors in *)
(* thousandths, so VaR and CVaR are in thousandths of the unit of sigma.    *)
(* nu is <<>> (None) or <<n>>.                                              *)

MaxStamp == 3

RiskStamps == 1..MaxStamp
RiskRetVals == {-1, 2}
RiskSigVals == {0, 2}
RiskAlphas == {95, 99}
Dists == {"normal", "t", "laplace"}
NuArgs == {<<>>, <<0>>, <<1>>, <<8>>}

\* confidence levels at which the Normal quantile and density are tabulated
NormalAlphas == {1, 5, 50, 95, 99}

\* norm.ppf(alpha), in thousandths
NormPpf(alpha) ==
    CASE alpha = 1 -> -2326
      [] alpha = 5 -> -1645
      [] alpha = 50 -> 0
      [] alpha = 95 -> 1645
      [] alpha = 99 -> 2326

\* norm.pdf(norm.ppf(alpha)), in millionths
NormPdfAtPpf(alpha) ==
    CASE alpha \in {1, 99} -> 26652
      [] alpha \in {5, 95} -> 103136
      [] alpha = 50 -> 398942

NormCvarFactorOverAlpha(alpha) == (NormPdfAtPpf(alpha) * 100) \div (alpha * 1000)

\* norm.pdf(z) / (1 - alpha), in thousandths
NormCvarFactor(alpha) == (NormPdfAtPpf(alpha) * 100) \div ((100 - alpha) * 1000)

\* t.ppf(alpha, nu): NaN for nu <= 0
TPpf(alpha, nu) ==
    IF nu <= 0 THEN NaN
    ELSE IF nu = 1 THEN Fin(IF alpha = 95 THEN 6314 ELSE 31821)
    ELSE Fin(IF alpha = 95 THEN 1860 ELSE 2896)

\* (t.pdf(z, nu) / (1 - alpha)) * ((nu + z**2) / (nu - 1)): a numpy float
\* divided by 0 is inf, not an exception
TCvarFactor(alpha, nu) ==
    IF nu <= 0 THEN NaN
    ELSE IF nu - 1 = 0 THEN PInf
    ELSE Fin(IF alpha = 95 THEN 2514 ELSE 3591)

ScaleSeries(e, sig) == [k \in 1..Len(sig) |-> [t |-> sig[k].t, v |-> XMulInt(e, sig[k].v)]]

DistIsTAnyOther(dist) == dist # "normal"

DistIsT(dist) == dist = "t"

\* the branches on dist and nu: the VaR and CVaR series, or the error raised
VarCvar(sig, alpha, dist, nu) ==
    IF dist = "normal"
    THEN [status |-> "ok",
          var |-> ScaleSeries(Fin(NormPpf(alpha)), sig),
          cvar |-> ScaleSeries(Fin(NormCvarFactor(alpha)), sig)]
    ELSE IF DistIsT(dist)
    THEN IF nu = <<>>
         THEN [status |-> "raise", exc |-> "ValueError",
               msg |-> "nu must be provided for Student-t VaR"]
         ELSE [status |-> "ok",
               var |-> ScaleSeries(TPpf(alpha, nu[1]), sig),
               cvar |-> ScaleSeries(TCvarFactor(alpha, nu[1]), sig)]
    ELSE [status |-> "raise", exc |-> "ValueError",
          msg |-> "dist must be 'normal' or 't'"]

parametric_var_cvar(ret, sig, alpha, dist, nu) ==
    LET vc == VarCvar(sig, alpha, dist, nu)
        al == Loc(ret, Index(sig))
    IN  IF vc.status = "raise" THEN vc
        ELSE IF al.status = "raise" THEN al
        ELSE [status |-> "ok", aligned_returns |-> al.series,
              var |-> vc.var, cvar |-> vc.cvar]

----------------------------------------------------------------------------
(* calibrate_volatility.  A finite scale is carried by its sign and its     *)
(* square sqnum/sqden.                                                      *)

Sign(n) == IF n > 0 THEN 1 ELSE IF n < 0 THEN -1 ELSE 0

Scaled(k, sgn, sqnum, sqden) == [k |-> k, sgn |-> sgn, sqnum |-> sqnum, sqden |-> sqden]

\* returns.std() / sigma.mean(), numpy floats: x/0 is inf or nan, no exception
CalScale(ret, sig) ==
    LET n == Len(ret)
        m == Len(sig)
        S == n * SumSq(ret) - SumV(ret) * SumV(ret)   \* std^2 = S / (n (n-1))
        M == SumV(sig)                                \* mean = M / m
    IN  IF n < 2 \/ m = 0 THEN Scaled("nan", 0, 0, 0)
        ELSE IF M = 0 THEN (IF S = 0 THEN Scaled("nan", 0, 0, 0)
                            ELSE Scaled("pinf", 0, 0, 0))
        ELSE Scaled("fin", Sign(M), S * m * m, n * (n - 1) * M * M)

\* sigma[k] * scale
CalMul(x, sc) ==
    CASE sc.k = "nan" -> Scaled("nan", 0, 0, 0)
      [] sc.k = "fin" -> Scaled("fin", Sign(x) * sc.sgn, x * x * sc.sqnum, sc.sqden)
      [] OTHER -> IF x = 0 THEN Scaled("nan", 0, 0, 0)
                  ELSE IF x > 0 THEN sc
                  ELSE Scaled(IF sc.k = "pinf" THEN "ninf" ELSE "pinf", 0, 0, 0)

calibrate_volatility(ret, sig) ==
    [status |-> "ok",
     scale |-> CalScale(ret, sig),
     series |-> [k \in 1..Len(sig) |->
                    [t |-> sig[k].t, v |-> CalMul(sig[k].v, CalScale(ret, sig))]]]

----------------------------------------------------------------------------
(* Actions of the VaR/CVaR calculator and the calibrator *)

ParametricVarCvar(alpha, dist, nu) ==
    /\ call' = [op |-> "parametric_var_cvar", alpha |-> alpha, dist |-> dist, nu |-> nu]
    /\ out' = parametric_var_cvar(returns, sigma, alpha, dist, nu)
    /\ UNCHANGED <<thr, locals, returns, sigma, var, breaches, pc, i, n00, n01, n10, n11>>

CalibrateVolatility ==
    /\ call' = [op |-> "calibrate_volatility"]
    /\ out' = calibrate_volatility(returns, sigma)
    /\ UNCHANGED <<thr, locals, returns, sigma, var, breaches, pc, i, n00, n01, n10, n11>>

InitRisk ==
    /\ returns \in AllSeries(RiskStamps, RiskRetVals)
    /\ sigma \in AllSeries(RiskStamps, RiskSigVals)
    /\ var = <<>> /\ breaches = <<>>
    /\ pc = "idle" /\ i = 0
    /\ n00 = 0 /\ n01 = 0 /\ n10 = 0 /\ n11 = 0
    /\ call = NoCall /\ out = NoOut
    /\ thr = NoThreads /\ locals = NoLocals

NextRisk ==
    \/ \E alpha \in RiskAlphas, dist \in Dists, nu \in NuArgs :
           ParametricVarCvar(alpha, dist, nu)
    \/ CalibrateVolatility

SpecRisk == InitRisk /\ [][NextRisk]_vars

\* the Normal family at every tabulated confidence level
NextNormal == \E alpha \in NormalAlphas : ParametricVarCvar(alpha, "normal", <<>>)

SpecNormal == InitRisk /\ [][NextNormal]_vars

----------------------------------------------------------------------------
(* Claims about the VaR/CVaR calculator and the calibrator *)

IsParametric == call.op = "parametric_var_cvar"

\* C6: parametric_var_cvar fails with an error, returning no VaR/CVaR, for
\* every distribution tag other than 'normal' and 't' and for 't' without nu,
\* whatever the input series are (the validation error, not an alignment
\* error, is what is raised); with 'normal' a missing nu is not an error: the
\* call returns its three series whenever the returns cover sigma's index, and
\* never fails with the validation error.
C6_InvalidTagOrMissingNuRaises ==
    IsParametric =>
        /\ (call.dist \notin {"normal", "t"} \/ (call.dist = "t" /\ call.nu = <<>>))
               => (out.status = "raise" /\ out.exc = "ValueError")
        /\ (call.dist = "normal" /\ call.nu = <<>>)
               => /\ ~(out.status = "raise" /\ out.exc = "ValueError")
                  /\ (Labels(sigma) \subseteq Labels(returns) => out.status = "ok")

\* an unsupported tag given with nu and with a sigma the returns do not cover
C6_Witness ==
    /\ IsParametric
    /\ call.dist = "laplace"
    /\ call.nu = <<8>>
    /\ ~(Labels(sigma) \subseteq Labels(returns))
    /\ out.status = "raise"

\* C7: with the Student-t family and nu <= 1 the computation fails with an
\* InvalidParameter error instead of returning a CVaR series.
\* (Stated where sigma is not empty and the returns cover it, so that no other
\* error can stand in for the one claimed.)
C7_NuAtMostOneRaises ==
    (/\ IsParametric /\ call.dist = "t" /\ call.nu # <<>>
     /\ Labels(sigma) # {} /\ Labels(sigma) \subseteq Labels(returns))
        => (call.nu[1] <= 1 => out.status = "raise")

\* C8: calibrate_volatility fails with DegenerateCalibration whenever the mean
\* of the raw volatility series is zero.
C8_ZeroMeanRaises ==
    (/\ call.op = "calibrate_volatility" /\ Len(returns) >= 2
     /\ Len(sigma) > 0 /\ SumV(sigma) = 0)
        => out.status = "raise"

\* C9: parametric_var_cvar aligns returns and sigma by inner join: for valid
\* arguments it returns aligned returns, VaR and CVaR that all carry the
\* intersection of the two input domains, also when sigma has timestamps the
\* returns lack.
C9_InnerJoinAlignment ==
    (IsParametric /\ (call.dist = "normal" \/ (call.dist = "t" /\ call.nu # <<>>)))
        => /\ out.status = "ok"
           /\ Labels(out.aligned_returns) = Labels(returns) \cap Labels(sigma)
           /\ Labels(out.var) = Labels(returns) \cap Labels(sigma)
           /\ Labels(out.cvar) = Labels(returns) \cap Labels(sigma)

----------------------------------------------------------------------------
(* var_breaches *)

MaxBreachStamp == 3

BreachStamps == 1..MaxBreachStamp
BreachRetVals == {-5, -3, -1, 2}
BreachVarVals == {1, 3}

IsBreachInclusive(r, v) == r <= -v

\* returns < -var, elementwise
IsBreach(r, v) == r < -v

\* breaches.mean()
MeanBool(br) == IF Len(br) = 0 THEN RatioNaN ELSE Ratio(SumBool(br), Len(br))

\* pandas compares only identically-labelled Series
var_breaches(ret, v) ==
    IF Index(ret) # Index(v)
    THEN [status |-> "raise", exc |-> "ValueError"]
    ELSE LET br == [k \in 1..Len(ret) |->
                       [t |-> ret[k].t, v |-> IsBreach(ret[k].v, v[k].v)]]
         IN  [status |-> "ok", breaches |-> br, breach_rate |-> MeanBool(br)]

VarBreaches ==
    /\ call' = [op |-> "var_breaches"]
    /\ out' = var_breaches(returns, var)
    /\ UNCHANGED <<thr, locals, returns, sigma, var, breaches, pc, i, n00, n01, n10, n11>>

InitBreach ==
    /\ returns \in AllSeries(BreachStamps, BreachRetVals)
    /\ var \in AllSeries(BreachStamps, BreachVarVals)
    /\ sigma = <<>> /\ breaches = <<>>
    /\ pc = "idle" /\ i = 0
    /\ n00 = 0 /\ n01 = 0 /\ n10 = 0 /\ n11 = 0
    /\ call = NoCall /\ out = NoOut
    /\ thr = NoThreads /\ locals = NoLocals

NextBreach == VarBreaches

SpecBreach == InitBreach /\ [][NextBreach]_vars

\* C2: on a common timestamp domain var_breaches returns one boolean per
\* timestamp, true exactly when return < -VaR (equality is no breach), and the
\* rate (number of true entries)/(number of timestamps); an empty domain gives
\* an empty indicator and a NaN rate without raising.
C2_BreachIndicatorAndRate ==
    (call.op = "var_breaches" /\ Index(returns) = Index(var)) =>
        /\ out.status = "ok"
        /\ Index(out.breaches) = Index(returns)
        /\ \A k \in 1..Len(returns) :
               out.breaches[k].v = (returns[k].v + var[k].v < 0)
        /\ (Len(returns) = 0 => out.breaches = <<>> /\ out.breach_rate.k = "nan")
        /\ (Len(returns) > 0 =>
               /\ out.breach_rate.k = "fin"
               /\ out.breach_rate.den = Len(returns)
               /\ out.breach_rate.num =
                      Cardinality({k \in 1..Len(returns) : out.breaches[k].v}))

\* returns [-0.05, 0.02, -0.01] against VaR [0.03, 0.03, 0.03]; and a return
\* equal to -VaR elsewhere is covered by the values -3 / 3 and -1 / 1
C2_Witness ==
    /\ call.op = "var_breaches"
    /\ Values(returns) = <<-5, 2, -1>>
    /\ Values(var) = <<3, 3, 3>>
    /\ Values(out.breaches) = <<TRUE, FALSE, FALSE>>
    /\ out.breach_rate = Ratio(1, 3)

----------------------------------------------------------------------------
(* stress_test_period.  Dates are day numbers. *)

MaxStressStamp == 3

StressStamps == 1..MaxStressStamp
StressRetVals == {-3, -1, 2}
StressDates == 0..(MaxStressStamp + 1)

LocSliceHalfOpen(s, start, end) == SelectSeq(s, LAMBDA e : start <= e.t /\ e.t < end)

\* s.loc[start:end] on a sorted index: both ends inclusive
LocSlice(s, start, end) == SelectSeq(s, LAMBDA e : start <= e.t /\ e.t <= end)

RECURSIVE MinV(_)
MinV(s) ==
    IF Len(s) = 1 THEN Head(s).v
    ELSE LET m == MinV(Tail(s)) IN IF Head(s).v < m THEN Head(s).v ELSE m

\* Series.min(): NaN for an empty series
SeriesMin(s) == IF Len(s) = 0 THEN NaN ELSE Fin(MinV(s))

SeriesSumNaNWhenEmpty(s) == IF Len(s) = 0 THEN NaN ELSE Fin(SumV(s))

\* Series.sum(): 0.0 for an empty series
SeriesSum(s) == Fin(SumV(s))

\* Series.mean(): NaN for an empty series
SeriesMean(s) == IF Len(s) = 0 THEN RatioNaN ELSE Ratio(SumV(s), Len(s))

stress_test_period(ret, start, end) ==
    LET stress_returns == LocSlice(ret, start, end)
    IN  [status |-> "ok",
         start |-> start,
         end |-> end,
         days |-> Len(stress_returns),
         worst_day |-> SeriesMin(stress_returns),
         cumulative_loss |-> SeriesSum(stress_returns),
         avg_daily_loss |-> SeriesMean(stress_returns)]

\* returns are counted in hundredths: 1 + r is (100 + r)/100
RECURSIVE ProdOnePlus(_, _)
ProdOnePlus(s, k) == IF k = 0 THEN 1 ELSE ProdOnePlus(s, k - 1) * (100 + s[k].v)

RECURSIVE PowHundred(_)
PowHundred(k) == IF k = 0 THEN 1 ELSE 100 * PowHundred(k - 1)

RECURSIVE SumFirst(_, _)
SumFirst(s, k) == IF k = 0 THEN 0 ELSE SumFirst(s, k - 1) + s[k].v

DrawdownAtRunningSum(s, k) == Ratio(SumFirst(s, k) * PowHundred(k - 1), PowHundred(k))

\* element k of (1 + stress_returns).cumprod() - 1
DrawdownAt(s, k) == Ratio(ProdOnePlus(s, k) - PowHundred(k), PowHundred(k))

\* main: the cumulative-drawdown sequence of a stress window
cumulative_dd(ret, start, end) ==
    LET stress_returns == LocSlice(ret, start, end)
    IN  [k \in 1..Len(stress_returns) |->
            [t |-> stress_returns[k].t, v |-> DrawdownAt(stress_returns, k)]]

CumulativeDrawdown(start, end) ==
    /\ call' = [op |-> "cumulative_dd", start |-> start, end |-> end]
    /\ out' = [status |-> "ok", series |-> cumulative_dd(returns, start, end)]
    /\ UNCHANGED <<thr, locals, returns, sigma, var, breaches, pc, i, n00, n01, n10, n11>>

StressTestPeriod(start, end) ==
    /\ call' = [op |-> "stress_test_period", start |-> start, end |-> end]
    /\ out' = stress_test_period(returns, start, end)
    /\ UNCHANGED <<thr, locals, returns, sigma, var, breaches, pc, i, n00, n01, n10, n11>>

InitStress ==
    /\ returns \in AllSeries(StressStamps, StressRetVals)
    /\ sigma = <<>> /\ var = <<>> /\ breaches = <<>>
    /\ pc = "idle" /\ i = 0
    /\ n00 = 0 /\ n01 = 0 /\ n10 = 0 /\ n11 = 0
    /\ call = NoCall /\ out = NoOut
    /\ thr = NoThreads /\ locals = NoLocals

NextStress ==
    \E start \in StressDates, end \in StressDates :
        \/ StressTestPeriod(start, end)
        \/ CumulativeDrawdown(start, end)

SpecStress == InitStress /\ [][NextStress]_vars

----------------------------------------------------------------------------
(* Claims about the stress scenario analyzer *)

IsStress == call.op = "stress_test_period"

NoObservationInWindow ==
    \A k \in 1..Len(returns) : ~(call.start <= returns[k].t /\ returns[k].t <= call.end)

\* C10 as stated: for a window holding no observation stress_test_period does
\* not fail and returns day_count = 0 with worst_day_return, cumulative_loss
\* and average_daily_loss all NaN.
C10_EmptyWindowAllNaN ==
    (IsStress /\ NoObservationInWindow) =>
        /\ out.status = "ok"
        /\ out.days = 0
        /\ out.worst_day.k = "nan"
        /\ out.cumulative_loss.k = "nan"
        /\ out.avg_daily_loss.k = "nan"

\* C10 amended: for a window holding no observation stress_test_period does
\* not fail and returns day_count = 0 with worst_day_return and
\* average_daily_loss NaN and cumulative_loss 0.
C10_EmptyWindowNaNButZeroSum ==
    (IsStress /\ NoObservationInWindow) =>
        /\ out.status = "ok"
        /\ out.days = 0
        /\ out.worst_day.k = "nan"
        /\ out.cumulative_loss = Fin(0)
        /\ out.avg_daily_loss.k = "nan"

\* a window lying wholly after the last observation of a non-empty series
C10_Witness ==
    /\ IsStress
    /\ Len(returns) >= 2
    /\ call.start <= call.end
    /\ \A k \in 1..Len(returns) : returns[k].t < call.start
    /\ out.days = 0

\* positions of the observations with start <= t <= end
InWindow == {k \in 1..Len(returns) : call.start <= returns[k].t /\ returns[k].t <= call.end}

RECURSIVE SumOver(_)
SumOver(K) ==
    IF K = {} THEN 0
    ELSE LET k == CHOOSE x \in K : TRUE IN returns[k].v + SumOver(K \ {k})

\* C11: the record of stress_test_period is computed over exactly the
\* observations with start <= t <= end, both ends inclusive: day_count is their
\* number, worst_day their minimum, cumulative_loss their sum and
\* avg_daily_loss that sum divided by day_count; nothing outside the window
\* enters the record.
C11_RecordOverInclusiveWindow ==
    IsStress =>
        /\ out.status = "ok"
        /\ out.days = Cardinality(InWindow)
        /\ out.cumulative_loss = Fin(SumOver(InWindow))
        /\ (InWindow # {} =>
               /\ out.worst_day.k = "fin"
               /\ \E k \in InWindow : returns[k].v = out.worst_day.v
               /\ \A k \in InWindow : out.worst_day.v <= returns[k].v
               /\ out.avg_daily_loss = Ratio(SumOver(InWindow), Cardinality(InWindow)))

\* window returns [-0.01, 0.02, -0.03], the window starting on the first and
\* ending on the last of the three
C11_Witness ==
    /\ IsStress
    /\ Values(LocSlice(returns, call.start, call.end)) = <<-1, 2, -3>>
    /\ \E k \in 1..Len(returns) : returns[k].t = call.start
    /\ \E k \in 1..Len(returns) : returns[k].t = call.end
    /\ out.days = 3
    /\ out.worst_day = Fin(-3)
    /\ out.cumulative_loss = Fin(-2)
    /\ out.avg_daily_loss = Ratio(-2, 3)

IsDrawdown == call.op = "cumulative_dd"

\* the k-th position of the window, in time order
WindowPos(k) == CHOOSE p \in InWindow : Cardinality({q \in InWindow : q < p}) = k - 1

WindowValues == [k \in 1..Cardinality(InWindow) |-> returns[WindowPos(k)].v]
WindowLabels == [k \in 1..Cardinality(InWindow) |-> returns[WindowPos(k)].t]

\* one value per observation of the window, over 100, 100^2, ...: it starts at
\* r1 and continues by 1 + d[k+1] = (1 + d[k]) * (1 + r[k+1])
IsRunningProductMinusOne(d, r) ==
    /\ Len(d) = Len(r)
    /\ \A k \in 1..Len(d) : d[k].k = "fin"
    /\ (Len(d) >= 1 => d[1].den = 100 /\ d[1].num = r[1])
    /\ \A k \in 1..(Len(d) - 1) :
           /\ d[k + 1].den = 100 * d[k].den
           /\ d[k + 1].num + d[k + 1].den = (d[k].num + d[k].den) * (100 + r[k + 1])

\* C12 as stated: the cumulative-drawdown sequence is the running product of
\* (1+r) minus 1 over the window's returns, one value per observation; for
\* window returns [-0.01, 0.02, -0.03] it is [-0.01, 0.0098, -0.020698].
C12_DrawdownExampleAsStated ==
    IsDrawdown =>
        /\ IsRunningProductMinusOne(Values(out.series), WindowValues)
        /\ (WindowValues = <<-1, 2, -3>> =>
               Values(out.series)
                   = <<Ratio(-1, 100), Ratio(98, 10000), Ratio(-20698, 1000000)>>)

\* C12 amended: the cumulative-drawdown sequence is the running product of
\* (1+r) minus 1 over the window's returns, one value per observation; for
\* window returns [-0.01, 0.02, -0.03] it is [-0.01, 0.0098, -0.020494].
C12_DrawdownRunningProduct ==
    IsDrawdown =>
        /\ IsRunningProductMinusOne(Values(out.series), WindowValues)
        /\ Index(out.series) = WindowLabels
        /\ (WindowValues = <<-1, 2, -3>> =>
               Values(out.series)
                   = <<Ratio(-1, 100), Ratio(98, 10000), Ratio(-20494, 1000000)>>)

\* the drawdown of a window holding [-0.01, 0.02, -0.03]
C12_Witness ==
    /\ IsDrawdown
    /\ WindowValues = <<-1, 2, -3>>
    /\ Len(out.series) = 3
    /\ out.series[3].v = Ratio(-20494, 1000000)

----------------------------------------------------------------------------
(* Claims about the Normal family *)

\* C14: under the Normal family, for every confidence level and every
\* volatility sigma > 0, the CVaR computed by parametric_var_cvar is strictly
\* greater than the VaR it computes at the same timestamp.
C14_NormalCvarAboveVar ==
    (IsParametric /\ call.dist = "normal" /\ out.status = "ok") =>
        /\ Len(out.var) = Len(sigma) /\ Len(out.cvar) = Len(sigma)
        /\ \A k \in 1..Len(sigma) :
               sigma[k].v > 0 =>
                   /\ out.var[k].t = out.cvar[k].t
                   /\ out.var[k].v.k = "fin" /\ out.cvar[k].v.k = "fin"
                   /\ out.cvar[k].v.v > out.var[k].v.v

\* alpha = 0.99 on a series that holds a positive volatility
C14_Witness ==
    /\ IsParametric /\ call.dist = "normal" /\ call.alpha = 99
    /\ out.status = "ok"
    /\ \E k \in 1..Len(sigma) : sigma[k].v > 0 /\ out.var[k].v.v > 0

----------------------------------------------------------------------------
(* Claims about the Basel status sequence *)

\* the breach count behind the k-th status of a call with window W
CountAt(W, k) == TrueCount(breaches, k - 1, W + k - 2)

Opposite(a, b) == {a, b} = {"GREEN", "RED"}

\* C15: in the status sequence of rolling_basel_traffic_light, for W >= 1, the
\* breach counts of two consecutive eligible timestamps differ by at most 1, no
\* status is followed directly by the opposite one of GREEN and RED, and every
\* passage between GREEN and RED holds at least five consecutive YELLOW.
C15_GreenRedThroughFiveYellow ==
    (call.op = "rolling_basel_traffic_light" /\ call.window >= 1) =>
        LET W == call.window
            res == out.series
            n == Len(res)
        IN  /\ \A k \in 1..(n - 1) :
                   /\ CountAt(W, k + 1) - CountAt(W, k) \in {-1, 0, 1}
                   /\ ~Opposite(res[k].v, res[k + 1].v)
            /\ \A a \in 1..n : \A b \in (a + 1)..n :
                   Opposite(res[a].v, res[b].v) =>
                       \E j \in (a + 1)..(b - 5) :
                           \A q \in j..(j + 4) : res[q].v = "YELLOW"

\* a sequence that starts GREEN and reaches RED
C15_Witness ==
    /\ call.op = "rolling_basel_traffic_light"
    /\ call.window = 10
    /\ Len(out.series) >= 7
    /\ out.series[1].v = "GREEN"
    /\ \E b \in 2..Len(out.series) : out.series[b].v = "RED"

----------------------------------------------------------------------------
(* Concurrent callers.  Every caller runs the core operations one after      *)
(* another on the shared input series; callers interleave at the statements  *)
(* of the two loops.  The local variables of a call live in the caller's own *)
(* frame.                                                                    *)

FrameShared(c) == "a"

\* the frame holding the locals of caller c's running call
Frame(c) == c

ConcAlpha == 99
ConcWindow == 1

Ready(c) == thr[c].pc \in {"idle", "done"}

Returned(c, op, arg, result) ==
    thr' = [thr EXCEPT ![c] = [pc |-> "done", op |-> op, arg |-> arg, out |-> result]]

Entered(c, pos, op, arg) ==
    thr' = [thr EXCEPT ![c] = [pc |-> pos, op |-> op, arg |-> arg, out |-> NoOut]]

Shared == <<returns, sigma, var, breaches>>
Sequential == <<pc, i, n00, n01, n10, n11, call, out>>

ConcKupiec(c) ==
    /\ Ready(c)
    /\ Returned(c, "kupiec_pof_test", ConcAlpha, kupiec_pof_test(breaches, ConcAlpha))
    /\ UNCHANGED <<locals, Shared, Sequential>>

ConcParametric(c) ==
    /\ Ready(c)
    /\ Returned(c, "parametric_var_cvar", ConcAlpha,
                parametric_var_cvar(returns, sigma, ConcAlpha, "normal", <<>>))
    /\ UNCHANGED <<locals, Shared, Sequential>>

ConcVarBreaches(c) ==
    /\ Ready(c)
    /\ Returned(c, "var_breaches", 0, var_breaches(returns, var))
    /\ UNCHANGED <<locals, Shared, Sequential>>

ConcChrStart(c) ==
    /\ Ready(c)
    /\ Entered(c, "chr", "christoffersen_test", 0)
    /\ locals' = [locals EXCEPT ![Frame(c)] = [EmptyFrame EXCEPT !.i = 1]]
    /\ UNCHANGED <<Shared, Sequential>>

ConcChrStep(c) ==
    /\ thr[c].pc = "chr"
    /\ locals[Frame(c)].i < Len(breaches)
    /\ LET f == locals[Frame(c)]
           b == ChrBucket(AsInt(Iloc(breaches, f.i - 1).v), AsInt(Iloc(breaches, f.i).v))
       IN  locals' = [locals EXCEPT ![Frame(c)] =
                         [f EXCEPT !.i = f.i + 1,
                                   !.n00 = IF b = "n00" THEN f.n00 + 1 ELSE f.n00,
                                   !.n01 = IF b = "n01" THEN f.n01 + 1 ELSE f.n01,
                                   !.n10 = IF b = "n10" THEN f.n10 + 1 ELSE f.n10,
                                   !.n11 = IF b = "n11" THEN f.n11 + 1 ELSE f.n11]]
    /\ UNCHANGED <<thr, Shared, Sequential>>

ConcChrReturn(c) ==
    /\ thr[c].pc = "chr"
    /\ locals[Frame(c)].i >= Len(breaches)
    /\ LET f == locals[Frame(c)]
       IN  Returned(c, "christoffersen_test", 0, ChrResult(f.n00, f.n01, f.n10, f.n11))
    /\ UNCHANGED <<locals, Shared, Sequential>>

ConcBaselStart(c) ==
    /\ Ready(c)
    /\ Entered(c, "basel", "rolling_basel_traffic_light", ConcWindow)
    /\ locals' = [locals EXCEPT ![Frame(c)] = [EmptyFrame EXCEPT !.i = ConcWindow]]
    /\ UNCHANGED <<Shared, Sequential>>

ConcBaselStep(c) ==
    /\ thr[c].pc = "basel"
    /\ locals[Frame(c)].i < Len(breaches)
    /\ LET f == locals[Frame(c)]
           status == BaselStatus(WindowBreaches(breaches, f.i, thr[c].arg))
       IN  locals' = [locals EXCEPT ![Frame(c)] =
                         [f EXCEPT !.i = f.i + 1, !.results = Append(f.results, status)]]
    /\ UNCHANGED <<thr, Shared, Sequential>>

\* pd.Series(results, index=breaches.index[window:]): the lengths must agree
BaselSeries(results, br, window) ==
    LET n == IF Len(br) > window THEN Len(br) - window ELSE 0
    IN  IF Len(results) # n
        THEN [status |-> "raise", exc |-> "ValueError"]
        ELSE [status |-> "ok",
              series |-> [k \in 1..n |-> [t |-> Iloc(br, window + k - 1).t, v |-> results[k]]]]

ConcBaselReturn(c) ==
    /\ thr[c].pc = "basel"
    /\ locals[Frame(c)].i >= Len(breaches)
    /\ Returned(c, "rolling_basel_traffic_light", thr[c].arg,
                BaselSeries(locals[Frame(c)].results, breaches, thr[c].arg))
    /\ UNCHANGED <<locals, Shared, Sequential>>

ConcStamps == 1..MaxConcStamp

InitConcurrent ==
    /\ breaches \in BreachSeries(MaxConcLen)
    /\ returns \in AllSeries(ConcStamps, {-3})
    /\ sigma \in AllSeries(ConcStamps, {2})
    /\ var \in AllSeries(ConcStamps, {1})
    /\ pc = "idle" /\ i = 0
    /\ n00 = 0 /\ n01 = 0 /\ n10 = 0 /\ n11 = 0
    /\ call = NoCall /\ out = NoOut
    /\ thr = NoThreads /\ locals = NoLocals

NextConcurrent ==
    \E c \in Callers :
        \/ ConcKupiec(c)
        \/ ConcParametric(c)
        \/ ConcVarBreaches(c)
        \/ ConcChrStart(c)
        \/ ConcChrStep(c)
        \/ ConcChrReturn(c)
        \/ ConcBaselStart(c)
        \/ ConcBaselStep(c)
        \/ ConcBaselReturn(c)

SpecConcurrent == InitConcurrent /\ [][NextConcurrent]_vars

----------------------------------------------------------------------------
(* Claims about concurrent callers *)

\* what the operation returns when it is run alone on the shared inputs
Alone(op, arg) ==
    CASE op = "kupiec_pof_test" -> kupiec_pof_test(breaches, arg)
      [] op = "christoffersen_test" ->
             ChrResult(PairCount(breaches, FALSE, FALSE), PairCount(breaches, FALSE, TRUE),
                       PairCount(breaches, TRUE, FALSE), PairCount(breaches, TRUE, TRUE))
      [] op = "rolling_basel_traffic_light" ->
             [status |-> "ok", series |-> rolling_basel_traffic_light(breaches, arg)]
      [] op = "parametric_var_cvar" ->
             parametric_var_cvar(returns, sigma, arg, "normal", <<>>)
      [] op = "var_breaches" -> var_breaches(returns, var)

ResultsAsAlone ==
    \A c \in Callers : thr[c].pc = "done" => thr[c].out = Alone(thr[c].op, thr[c].arg)

InputsUnchanged ==
    returns' = returns /\ sigma' = sigma /\ var' = var /\ breaches' = breaches

\* C13: in any interleaving of calls to parametric_var_cvar, var_breaches,
\* kupiec_pof_test, christoffersen_test and rolling_basel_traffic_light over
\* shared input series, every call returns exactly what it returns when run
\* alone on the same arguments, and no call changes the shared series.
C13_CallsIndependent == []ResultsAsAlone /\ [][InputsUnchanged]_vars

\* one caller has returned from christoffersen_test while the other is inside
\* its own scan of the same series
C13_Witness ==
    /\ thr["a"].pc = "done" /\ thr["a"].op = "christoffersen_test"
    /\ thr["a"].out.status = "ok"
    /\ thr["b"].pc = "chr" /\ locals["b"].i >= 2

====
